---- MODULE Spec2Model ----
(***************************************************************************)
(* Model of the gfx back end of piston 2D graphics (src/back_end.rs):      *)
(* the matrix of pipeline state objects built by PsoStencil::new, the      *)
(* selection PsoStencil::stencil_blend / PsoBlend::blend, and the draw     *)
(* scope Gfx2d::draw with the Graphics operations clear_color,             *)
(* clear_stencil, tri_list and tri_list_uv recording into a gfx encoder.   *)
(***************************************************************************)
EXTENDS Integers, Sequences, FiniteSets, TLC

(***************************************************************************)
(* Program constants.                                                      *)
(***************************************************************************)
POS_COMPONENTS == 2

UV_COMPONENTS == 2

\* graphics::BACK_END_MAX_VERTEX_COUNT, imported as BUFFER_SIZE; the graphics
\* crate sets it to 1024.
BUFFER_SIZE == 1024

\* std::u16::MAX
U16_MAX == 65535

(***************************************************************************)
(* Bounds of the model.                                                    *)
(***************************************************************************)
\* The encoder is explored up to this many recorded commands.
MaxCmds == 5

(***************************************************************************)
(* Option values of graphics::draw_state.                                  *)
(***************************************************************************)
None == [tag |-> "None"]

BlendModes == {"Alpha", "Add", "Multiply", "Invert"}

\* Option<draw_state::Blend>
OptBlend == {None} \cup {[tag |-> b] : b \in BlendModes}

ClipModes == {"Clip", "Inside", "Outside"}

\* Option<draw_state::Stencil> carrying the u8 values of V.
OptStencil(V) == {None} \cup {[tag |-> c, val |-> v] : c \in ClipModes, v \in V}

U8 == 0..255

(***************************************************************************)
(* gfx::state values used by PsoStencil::new.                              *)
(***************************************************************************)
\* gfx::state::Stencil::new(fun, mask, (op_fail, op_depth_fail, op_pass))
StencilNew(fun, mask, ops) ==
    [fun |-> fun, mask |-> mask,
     op_fail |-> ops[1], op_depth_fail |-> ops[2], op_pass |-> ops[3]]

stencil == StencilNew("Always", 0, <<"Keep", "Keep", "Keep">>)

stencil_clip_wrong == StencilNew("Never", 255, <<"Keep", "Keep", "Replace">>)

stencil_clip == StencilNew("Never", 255, <<"Replace", "Keep", "Keep">>)

stencil_inside == StencilNew("Equal", 255, <<"Keep", "Keep", "Keep">>)

stencil_outside == StencilNew("NotEqual", 255, <<"Keep", "Keep", "Keep">>)

mask_all == "MASK_ALL"

mask_none == "MASK_NONE"

\* The presets of gfx::preset::blend are named, not expanded.
Preset(name) == [preset |-> name, color |-> name, alpha |-> name]

no_blend ==
    [preset |-> "none",
     color |-> [equation |-> "Add", source |-> "One", destination |-> "Zero"],
     alpha |-> [equation |-> "Add", source |-> "One", destination |-> "Zero"]]

(***************************************************************************)
(* The pipeline closures of Gfx2d::new: a pipeline state object created    *)
(* from a linked program.  n is the number of pipelines the factory had    *)
(* created before; it gives the object its identity.                       *)
(***************************************************************************)
create_pipeline(program, n, blend_preset, st, color_mask) ==
    [id |-> n + 1,
     program |-> program,
     primitive |-> "TriangleList",
     rasterizer |-> "fill/CullFace::Nothing",
     blend_target |-> [name |-> "o_Color", mask |-> color_mask,
                       blend |-> blend_preset],
     stencil_target |-> st]

\* One PsoBlend literal of PsoStencil::new: fields in evaluation order.
PsoBlendNew(program, n, st, mask) ==
    [alpha    |-> create_pipeline(program, n,     Preset("ALPHA"), st, mask),
     add      |-> create_pipeline(program, n + 1, Preset("ADD"), st, mask),
     multiply |-> create_pipeline(program, n + 2, Preset("MULTIPLY"), st, mask),
     invert   |-> create_pipeline(program, n + 3, Preset("INVERT"), st, mask),
     none     |-> create_pipeline(program, n + 4, no_blend, st, mask)]

\* PsoStencil::new with the closure of `program`, the factory having created
\* n pipelines before.
PsoStencilNew(program, n) ==
    [none    |-> PsoBlendNew(program, n,      stencil, mask_all),
     clip    |-> PsoBlendNew(program, n + 5,  stencil_clip, mask_none),
     inside  |-> PsoBlendNew(program, n + 10, stencil_inside, mask_all),
     outside |-> PsoBlendNew(program, n + 15, stencil_outside, mask_all)]

\* Pipelines one PsoStencil::new creates.
PipelinesPerProgram == 20

(***************************************************************************)
(* Selection.                                                              *)
(***************************************************************************)
\* A mis-selection: Add and Multiply exchanged.
blend_swapped(self, b) ==
    CASE b.tag = "Alpha"    -> self.alpha
      [] b.tag = "Add"      -> self.multiply
      [] b.tag = "Multiply" -> self.add
      [] b.tag = "Invert"   -> self.invert
      [] b.tag = "None"     -> self.none

\* PsoBlend::blend
blend(self, b) ==
    CASE b.tag = "Alpha"    -> self.alpha
      [] b.tag = "Add"      -> self.add
      [] b.tag = "Multiply" -> self.multiply
      [] b.tag = "Invert"   -> self.invert
      [] b.tag = "None"     -> self.none

\* PsoStencil::stencil_blend: the pipeline and the stencil reference.
stencil_blend(self, st, b) ==
    CASE st.tag = "None"    -> <<blend(self.none, b), 0>>
      [] st.tag = "Clip"    -> <<blend(self.clip, b), st.val>>
      [] st.tag = "Inside"  -> <<blend(self.inside, b), st.val>>
      [] st.tag = "Outside" -> <<blend(self.outside, b), st.val>>

(***************************************************************************)
(* Inputs of the operations.                                               *)
(***************************************************************************)
\* The draw states the scene hands to tri_list and tri_list_uv: no scissor,
\* one that fits 16 bits, the largest that fits and one that does not fit,
\* with every clip mode and four of the five blend settings.
DrawStates ==
    {[scissor |-> None, stencil |-> None, blend |-> None],
     [scissor |-> [tag |-> "Some", r |-> <<1, 2, 3, 4>>],
      stencil |-> [tag |-> "Clip", val |-> 255], blend |-> [tag |-> "Alpha"]],
     [scissor |-> [tag |-> "Some", r |-> <<U16_MAX, 0, U16_MAX, U16_MAX>>],
      stencil |-> [tag |-> "Inside", val |-> 0], blend |-> [tag |-> "Invert"]],
     [scissor |-> [tag |-> "Some", r |-> <<U16_MAX + 6, 0, 70000, 2 * U16_MAX + 1>>],
      stencil |-> [tag |-> "Outside", val |-> 7],
      blend |-> [tag |-> "Multiply"]]}

\* sRGB colours, components in thousandths.
Colors == {<<1000, 500, 40, 500>>}

Textures == {"texture"}

\* Values the scene clears the stencil buffer to.
StencilClears == {255}

\* A slice &[f32]: the array it points into and its length in elements of
\* `width` f32 each.
Slice(ptr, len) == [ptr |-> ptr, len |-> len, width |-> 1]

\* Lengths of the position slices the scene streams: empty, one triangle,
\* an odd length, exactly the buffer's capacity, and beyond it.
PosLens ==
    {0, 6, 7, POS_COMPONENTS * BUFFER_SIZE, POS_COMPONENTS * BUFFER_SIZE + 1,
     POS_COMPONENTS * BUFFER_SIZE + 2}

\* Lengths of the (positions, texcoords) pairs: equal and unequal.
UvLens ==
    {<<0, 0>>, <<6, 6>>, <<6, 2>>, <<6, 8>>,
     <<POS_COMPONENTS * BUFFER_SIZE, UV_COMPONENTS * BUFFER_SIZE>>,
     <<POS_COMPONENTS * BUFFER_SIZE + 2, UV_COMPONENTS * BUFFER_SIZE + 2>>}

\* What the memory behind a slice may hold.
Junk == {"junk0", "junk1"}

(***************************************************************************)
(* The collaborators as the back end uses them.                            *)
(***************************************************************************)
\* graphics::color::gamma_srgb_to_linear on one component (thousandths):
\* c / 12.92 up to 0.04045, ((c + 0.055) / 1.055) ^ 2.4 above.
component(c) ==
    CASE c = 0    -> 0
      [] c = 40   -> 3
      [] c = 500  -> 214
      [] c = 1000 -> 1000

\* gamma_srgb_to_linear: alpha is kept.
gamma_srgb_to_linear(c) ==
    <<component(c[1]), component(c[2]), component(c[3]), c[4]>>

\* Factory::create_buffer_dynamic(num, role): a buffer of num elements.
create_buffer_dynamic(name, num) == [name |-> name, len |-> num]

\* A texcoord buffer sized in vertices, not in components.
buffer_uv_short == create_buffer_dynamic("buffer_uv", BUFFER_SIZE)

buffer_pos == create_buffer_dynamic("buffer_pos", POS_COMPONENTS * BUFFER_SIZE)

buffer_uv == create_buffer_dynamic("buffer_uv", UV_COMPONENTS * BUFFER_SIZE)

\* mem::transmute of &[f32] to a slice of two-component vertices: pointer and
\* length are kept, so the slice now spans len * 2 f32, the second half of
\* them behind the end of the f32 slice (`tail` is what is read there).
transmute(s, tail) ==
    [ptr |-> s.ptr, len |-> s.len, width |-> POS_COMPONENTS,
     tail |-> IF s.len = 0 THEN "empty" ELSE tail]

\* An update that copies what fits and drops the rest.
update_buffer_truncating(enc, buf, data, offset) ==
    [ok |-> TRUE,
     enc |-> Append(enc, [op |-> "update_buffer", buf |-> buf.name,
                          data |-> [data EXCEPT !.len =
                                        IF data.len + offset <= buf.len
                                        THEN data.len ELSE buf.len - offset],
                          offset |-> offset])]

\* Encoder::update_buffer(buf, data, offset_elements): records the copy when
\* the data fits the buffer, and is an Err otherwise.
update_buffer(enc, buf, data, offset) ==
    IF data.len + offset <= buf.len
    THEN [ok |-> TRUE,
          enc |-> Append(enc, [op |-> "update_buffer", buf |-> buf.name,
                               data |-> data, offset |-> offset])]
    ELSE [ok |-> FALSE, enc |-> enc]

\* A draw recorded ahead of the commands before it.
encoder_draw_first(enc, slice, pso, data) ==
    <<[op |-> "draw", slice |-> slice, pso |-> pso, data |-> data]>> \o enc

\* Encoder::draw(slice, pso, data)
encoder_draw(enc, slice, pso, data) ==
    Append(enc, [op |-> "draw", slice |-> slice, pso |-> pso, data |-> data])

\* `as u16` on a u32.
as_u16(x) == x % (U16_MAX + 1)

\* The scissor rectangle of tri_list and tri_list_uv.
scissor_rect(sc) ==
    IF sc.tag = "None"
    THEN [x |-> 0, y |-> 0, w |-> U16_MAX, h |-> U16_MAX]
    ELSE [x |-> as_u16(sc.r[1]), y |-> as_u16(sc.r[2]),
          w |-> as_u16(sc.r[3]), h |-> as_u16(sc.r[4])]

\* A vertex count that forgets the components per vertex.
vertex_count_wrong(vertices) == vertices.len

\* let n = vertices.len() / POS_COMPONENTS
vertex_count(vertices) == vertices.len \div POS_COMPONENTS

\* gfx::Slice over the first n vertices.
slice_of(n) == [instances |-> None, start |-> 0, end |-> n, kind |-> "Vertex"]

\* An assertion that passes always.
lengths_agree_unchecked(vertices, texture_coords) == TRUE

\* The condition of assert_eq! in the closure of tri_list_uv.
lengths_agree(vertices, texture_coords) ==
    vertices.len * UV_COMPONENTS = texture_coords.len * POS_COMPONENTS

(***************************************************************************)
(* State.                                                                  *)
(***************************************************************************)
VARIABLES
    g2d,        \* the Gfx2d: buffers, the two pipeline matrices, the sampler
    encoder,    \* the calls recorded in the gfx::Encoder, in order
    pc,         \* where control is: outside a scope, in the scope's body,
                \* in the body of tri_list / tri_list_uv, or unwinding
    frame,      \* the locals of the running tri_list / tri_list_uv
    invoked     \* history: the invocations of the inner closures

vars == <<g2d, encoder, pc, frame, invoked>>

NoFrame == [kind |-> "none"]

\* Gfx2d::new: the colored matrix, then the textured one, the buffers and
\* the sampler.
Gfx2dNew ==
    [buffer_pos |-> buffer_pos,
     buffer_uv |-> buffer_uv,
     colored |-> PsoStencilNew("colored", 0),
     textured |-> PsoStencilNew("textured", PipelinesPerProgram),
     sampler |-> [filter |-> "Bilinear", wrap |-> "Clamp"]]

Init ==
    /\ g2d = Gfx2dNew
    /\ encoder = <<>>
    /\ pc = "idle"
    /\ frame = NoFrame
    /\ invoked = <<>>

(***************************************************************************)
(* Gfx2d::draw: the scope around the caller's closure.                     *)
(***************************************************************************)
draw ==
    /\ pc = "idle"
    /\ pc' = "body"
    /\ UNCHANGED <<g2d, encoder, frame, invoked>>

draw_return ==
    /\ pc = "body"
    /\ pc' = "idle"
    /\ UNCHANGED <<g2d, encoder, frame, invoked>>

(***************************************************************************)
(* Graphics::clear_color and clear_stencil.                                *)
(***************************************************************************)
clear_color(color) ==
    /\ pc = "body"
    /\ Len(encoder) < MaxCmds
    /\ LET c == gamma_srgb_to_linear(color)
       IN encoder' = Append(encoder, [op |-> "clear", target |-> "output_color",
                                      value |-> <<c[1], c[2], c[3]>>])
    /\ UNCHANGED <<g2d, pc, frame, invoked>>

clear_stencil(value) ==
    /\ pc = "body"
    /\ Len(encoder) < MaxCmds
    /\ encoder' = Append(encoder, [op |-> "clear_stencil",
                                   target |-> "output_stencil", value |-> value])
    /\ UNCHANGED <<g2d, pc, frame, invoked>>

(***************************************************************************)
(* Graphics::tri_list: the part before the caller's closure f runs, the    *)
(* inner closure f may invoke any number of times, and the return.         *)
(***************************************************************************)
\* A tri_list that moves the selected pipeline into the none/none entry.
tri_list_moving(draw_state, color) ==
    /\ pc = "body"
    /\ LET sel == stencil_blend(g2d.colored, draw_state.stencil, draw_state.blend)
       IN /\ g2d' = [g2d EXCEPT !.colored.none.none = sel[1]]
          /\ frame' = [kind |-> "tri_list", draw_state |-> draw_state,
                       pso |-> sel[1],
                       data |-> [pos |-> g2d.buffer_pos.name,
                                 color |-> gamma_srgb_to_linear(color),
                                 blend_target |-> "output_color",
                                 stencil_target |->
                                     <<"output_stencil", <<sel[2], sel[2]>>>>,
                                 blend_ref |-> <<1, 1, 1, 1>>,
                                 scissor |-> scissor_rect(draw_state.scissor)]]
    /\ pc' = "tri_list"
    /\ UNCHANGED <<encoder, invoked>>

tri_list(draw_state, color) ==
    /\ pc = "body"
    /\ LET sel == stencil_blend(g2d.colored, draw_state.stencil, draw_state.blend)
       IN frame' = [kind |-> "tri_list", draw_state |-> draw_state,
                    pso |-> sel[1],
                    data |-> [pos |-> g2d.buffer_pos.name,
                              color |-> gamma_srgb_to_linear(color),
                              blend_target |-> "output_color",
                              stencil_target |->
                                  <<"output_stencil", <<sel[2], sel[2]>>>>,
                              blend_ref |-> <<1, 1, 1, 1>>,
                              scissor |-> scissor_rect(draw_state.scissor)]]
    /\ pc' = "tri_list"
    /\ UNCHANGED <<g2d, encoder, invoked>>

\* The closure |vertices| of tri_list: upload, unwrap, draw.
tri_list_closure(vertices, tail) ==
    /\ pc = "tri_list"
    /\ Len(encoder) + 2 <= MaxCmds
    /\ LET up == update_buffer(encoder, g2d.buffer_pos,
                               transmute(vertices, tail), 0)
       IN /\ IF up.ok
             THEN /\ encoder' = encoder_draw(up.enc,
                                    slice_of(vertex_count(vertices)),
                                    frame.pso, frame.data)
                  /\ UNCHANGED <<pc, frame>>
             ELSE /\ encoder' = up.enc
                  /\ pc' = "panicked"
                  /\ frame' = NoFrame
          /\ invoked' = Append(invoked,
                 [kind |-> "tri_list", draw_state |-> frame.draw_state,
                  vertices |-> vertices, texture_coords |-> Slice("none", 0),
                  first |-> Len(encoder) + 1, returned |-> up.ok])
    /\ UNCHANGED g2d

tri_list_return ==
    /\ pc = "tri_list"
    /\ pc' = "body"
    /\ frame' = NoFrame
    /\ UNCHANGED <<g2d, encoder, invoked>>

(***************************************************************************)
(* Graphics::tri_list_uv.                                                  *)
(***************************************************************************)
tri_list_uv(draw_state, color, texture) ==
    /\ pc = "body"
    /\ LET sel == stencil_blend(g2d.textured, draw_state.stencil,
                                draw_state.blend)
       IN frame' = [kind |-> "tri_list_uv", draw_state |-> draw_state,
                    pso |-> sel[1],
                    data |-> [pos |-> g2d.buffer_pos.name,
                              uv |-> g2d.buffer_uv.name,
                              color |-> gamma_srgb_to_linear(color),
                              texture |-> <<texture, g2d.sampler>>,
                              blend_target |-> "output_color",
                              stencil_target |->
                                  <<"output_stencil", <<sel[2], sel[2]>>>>,
                              blend_ref |-> <<1, 1, 1, 1>>,
                              scissor |-> scissor_rect(draw_state.scissor)]]
    /\ pc' = "tri_list_uv"
    /\ UNCHANGED <<g2d, encoder, invoked>>

\* The closure |vertices, texture_coords| of tri_list_uv: assert, upload
\* both, unwrap each, draw.
tri_list_uv_closure(vertices, texture_coords, tail, tail_uv) ==
    /\ pc = "tri_list_uv"
    /\ Len(encoder) + 3 <= MaxCmds
    /\ LET agree == lengths_agree(vertices, texture_coords)
           up == update_buffer(encoder, g2d.buffer_pos,
                               transmute(vertices, tail), 0)
           up_uv == update_buffer(up.enc, g2d.buffer_uv,
                                  transmute(texture_coords, tail_uv), 0)
       IN /\ IF ~agree
             THEN /\ encoder' = encoder
                  /\ pc' = "panicked"
                  /\ frame' = NoFrame
             ELSE IF ~up.ok
             THEN /\ encoder' = up.enc
                  /\ pc' = "panicked"
                  /\ frame' = NoFrame
             ELSE IF ~up_uv.ok
             THEN /\ encoder' = up_uv.enc
                  /\ pc' = "panicked"
                  /\ frame' = NoFrame
             ELSE /\ encoder' = encoder_draw(up_uv.enc,
                                    slice_of(vertex_count(vertices)),
                                    frame.pso, frame.data)
                  /\ UNCHANGED <<pc, frame>>
          /\ invoked' = Append(invoked,
                 [kind |-> "tri_list_uv", draw_state |-> frame.draw_state,
                  vertices |-> vertices, texture_coords |-> texture_coords,
                  first |-> Len(encoder) + 1,
                  returned |-> agree /\ up.ok /\ up_uv.ok])
    /\ UNCHANGED g2d

tri_list_uv_return ==
    /\ pc = "tri_list_uv"
    /\ pc' = "body"
    /\ frame' = NoFrame
    /\ UNCHANGED <<g2d, encoder, invoked>>

(***************************************************************************)
(* The specification.                                                      *)
(***************************************************************************)
\* What follows a slice in memory when it is read past its end.
Tails(len) == IF len = 0 THEN {"empty"} ELSE Junk

Next ==
    \/ draw
    \/ draw_return
    \/ \E color \in Colors : clear_color(color)
    \/ \E value \in StencilClears : clear_stencil(value)
    \/ \E ds \in DrawStates, color \in Colors : tri_list(ds, color)
    \/ \E len \in PosLens : \E tail \in Tails(len) :
          tri_list_closure(Slice("vertices", len), tail)
    \/ tri_list_return
    \/ \E ds \in DrawStates, color \in Colors, texture \in Textures :
          tri_list_uv(ds, color, texture)
    \/ \E lens \in UvLens :
          \E tail \in Tails(lens[1]), tail_uv \in Tails(lens[2]) :
             tri_list_uv_closure(Slice("vertices", lens[1]),
                                 Slice("texture_coords", lens[2]),
                                 tail, tail_uv)
    \/ tri_list_uv_return

Spec == Init /\ [][Next]_vars

(***************************************************************************)
(* The selection on its own: PsoStencil::stencil_blend applied once to     *)
(* every optional blend and every optional clip descriptor with a u8       *)
(* value, on either matrix of the Gfx2d.                                   *)
(***************************************************************************)
InitSelect ==
    /\ g2d = Gfx2dNew
    /\ encoder = <<>>
    /\ pc = "select"
    /\ frame \in {[kind |-> "select", matrix |-> m, stencil |-> st, blend |-> b] :
                     m \in {"colored", "textured"}, st \in OptStencil(U8),
                     b \in OptBlend}
    /\ invoked = <<>>

select ==
    /\ pc = "select"
    /\ LET self == IF frame.matrix = "colored" THEN g2d.colored
                   ELSE g2d.textured
           sel == stencil_blend(self, frame.stencil, frame.blend)
       IN frame' = [kind |-> "selected", matrix |-> frame.matrix,
                    stencil |-> frame.stencil, blend |-> frame.blend,
                    pso |-> sel[1], stencil_val |-> sel[2]]
    /\ pc' = "selected"
    /\ UNCHANGED <<g2d, encoder, invoked>>

NextSelect == select

SpecSelect == InitSelect /\ [][NextSelect]_vars

(***************************************************************************)
(* Vocabulary of the properties.                                           *)
(***************************************************************************)
\* The field of PsoStencil a clip descriptor names, and the field of
\* PsoBlend a blend setting names.
ClipField(st) ==
    [None |-> "none", Clip |-> "clip", Inside |-> "inside",
     Outside |-> "outside"][st.tag]

BlendField(b) ==
    [None |-> "none", Alpha |-> "alpha", Add |-> "add",
     Multiply |-> "multiply", Invert |-> "invert"][b.tag]

ClipFields == {"none", "clip", "inside", "outside"}

BlendFields == {"alpha", "add", "multiply", "invert", "none"}

\* The matrix a program's draws select from.
MatrixOf(kind) == IF kind = "tri_list" THEN g2d.colored ELSE g2d.textured

\* Commands an invocation records before its draw.
UploadsOf(kind) == IF kind = "tri_list" THEN 1 ELSE 2

IsDraw(c) == c.op = "draw"

IsUpload(c) == c.op = "update_buffer"

DrawIndices == {i \in 1..Len(encoder) : IsDraw(encoder[i])}

\* The place in the encoder of the k-th draw.
NthDraw(k) ==
    CHOOSE i \in DrawIndices : Cardinality({j \in DrawIndices : j < i}) = k - 1

ReturnedIndices == {k \in 1..Len(invoked) : invoked[k].returned}

\* The k-th invocation that returned.
NthReturned(k) ==
    invoked[CHOOSE i \in ReturnedIndices :
               Cardinality({j \in ReturnedIndices : j < i}) = k - 1]

\* The vertices an invocation was given: two components each.
VertexCountOf(inv) == inv.vertices.len \div 2

Mismatched(inv) ==
    /\ inv.kind = "tri_list_uv"
    /\ inv.vertices.len * 2 # inv.texture_coords.len * 2

OverCapacity(inv) == VertexCountOf(inv) > BUFFER_SIZE

ScissorFits(sc) ==
    sc.tag = "Some" => \A i \in 1..4 : sc.r[i] \in 0..U16_MAX

\* Whether invocation k recorded nothing: it is the last one and the encoder
\* ends where it began.
RecordedNothing(k) ==
    /\ k = Len(invoked)
    /\ Len(encoder) = invoked[k].first - 1

(***************************************************************************)
(* C1: for every optional blend mode and every optional clip descriptor    *)
(* with a value in 0..255, stencil_blend returns the pipeline stored at    *)
(* that (clip mode, blend mode) position of the matrix, absent selecting   *)
(* the 'none' entry, and the descriptor's value, or 0 when absent.         *)
(***************************************************************************)
C1_SelectsMatrixEntry ==
    pc = "selected" =>
        /\ frame.pso = (IF frame.matrix = "colored" THEN g2d.colored
                        ELSE g2d.textured)
                           [ClipField(frame.stencil)][BlendField(frame.blend)]
        /\ frame.stencil_val =
               (IF frame.stencil.tag = "None" THEN 0 ELSE frame.stencil.val)

C1_Witness ==
    /\ pc = "selected"
    /\ frame.matrix = "textured"
    /\ frame.stencil = [tag |-> "Outside", val |-> 200]
    /\ frame.blend = [tag |-> "Multiply"]
    /\ frame.pso = g2d.textured.outside.multiply
    /\ frame.stencil_val = 200

(***************************************************************************)
(* C2 as stated: the encoder holds exactly one draw call per invocation of *)
(* an inner closure, in the order of the invocations.                      *)
(***************************************************************************)
C2_OneDrawPerInvocation ==
    /\ Cardinality(DrawIndices) = Len(invoked)
    /\ \A k \in 1..Len(invoked) :
          NthDraw(k) = invoked[k].first + UploadsOf(invoked[k].kind)

(***************************************************************************)
(* C2 amended: the encoder holds exactly one draw call per invocation that *)
(* returned (one that raised no input-contract error), in the order of     *)
(* those invocations: the k-th draw is the command that invocation         *)
(* recorded after its uploads, with its vertex count, its program's        *)
(* pipeline for its draw state and its stencil reference.                  *)
(***************************************************************************)
C2_OneDrawPerReturnedInvocation ==
    /\ Cardinality(DrawIndices) = Cardinality(ReturnedIndices)
    /\ \A k \in 1..Cardinality(ReturnedIndices) :
          LET inv == NthReturned(k)
              d == encoder[NthDraw(k)]
          IN /\ NthDraw(k) = inv.first + UploadsOf(inv.kind)
             /\ d.slice.end = VertexCountOf(inv)
             /\ d.pso = MatrixOf(inv.kind)[ClipField(inv.draw_state.stencil)]
                                          [BlendField(inv.draw_state.blend)]

C2_Witness ==
    /\ Len(invoked) = 2
    /\ invoked[1].kind = "tri_list_uv" /\ invoked[1].returned
    /\ invoked[2].kind = "tri_list" /\ invoked[2].returned
    /\ invoked[1].vertices.len = 6 /\ invoked[2].vertices.len = 7
    /\ Len(encoder) = 5
    /\ encoder[3].op = "draw" /\ encoder[3].slice.end = 3
    /\ encoder[3].pso.program = "textured"
    /\ encoder[5].op = "draw" /\ encoder[5].pso.program = "colored"

(***************************************************************************)
(* C3: every draw call of an inner closure given L position floats covers  *)
(* the vertices from 0 with a count of L / 2, and the positions were       *)
(* written to the position buffer from offset 0 before the draw.           *)
(***************************************************************************)
C3_VertexRange ==
    \A k \in 1..Len(invoked) :
        invoked[k].returned =>
            LET inv == invoked[k]
                up == encoder[inv.first]
                d == encoder[inv.first + UploadsOf(inv.kind)]
            IN /\ inv.first + UploadsOf(inv.kind) <= Len(encoder)
               /\ IsUpload(up)
               /\ up.buf = "buffer_pos"
               /\ up.offset = 0
               /\ up.data.ptr = inv.vertices.ptr
               /\ up.data.len = inv.vertices.len
               /\ IsDraw(d)
               /\ d.slice.start = 0
               /\ d.slice.end = inv.vertices.len \div 2
               /\ d.data.pos = "buffer_pos"

C3_Witness ==
    /\ Len(invoked) = 2
    /\ invoked[1].kind = "tri_list" /\ invoked[1].returned
    /\ invoked[1].vertices.len = 6
    /\ encoder[2].op = "draw" /\ encoder[2].slice.end = 3
    /\ invoked[2].kind = "tri_list_uv" /\ invoked[2].returned
    /\ invoked[2].vertices.len = 2 * BUFFER_SIZE
    /\ encoder[5].op = "draw" /\ encoder[5].slice.end = BUFFER_SIZE

(***************************************************************************)
(* C4: an invocation of the closure of tri_list_uv whose position and      *)
(* texcoord lengths disagree raises the error (the assertion unwinds) and  *)
(* records neither an upload nor a draw.                                   *)
(***************************************************************************)
C4_MismatchRejected ==
    \A k \in 1..Len(invoked) :
        Mismatched(invoked[k]) =>
            /\ ~invoked[k].returned
            /\ pc = "panicked"
            /\ RecordedNothing(k)

C4_Witness ==
    /\ Len(invoked) = 2
    /\ invoked[1].returned
    /\ invoked[2].kind = "tri_list_uv"
    /\ invoked[2].vertices.len = 6
    /\ invoked[2].texture_coords.len = 2
    /\ pc = "panicked"
    /\ Len(encoder) = 2

(***************************************************************************)
(* C5 as stated: the scissor bound to a draw is (0, 0, 65535, 65535)       *)
(* without a scissor, the given rectangle when every coordinate fits       *)
(* 0..65535, and when one does not fit the draw reports an error instead   *)
(* of binding a wrapped value.                                             *)
(***************************************************************************)
C5_ScissorLosslessOrError ==
    \A k \in 1..Len(invoked) :
        LET inv == invoked[k]
            sc == inv.draw_state.scissor
        IN IF ~ScissorFits(sc)
           THEN ~inv.returned
           ELSE inv.returned =>
                   encoder[inv.first + UploadsOf(inv.kind)].data.scissor =
                       (IF sc.tag = "None"
                        THEN [x |-> 0, y |-> 0, w |-> 65535, h |-> 65535]
                        ELSE [x |-> sc.r[1], y |-> sc.r[2],
                              w |-> sc.r[3], h |-> sc.r[4]])

(***************************************************************************)
(* C6: an invocation given more vertices than BACK_END_MAX_VERTEX_COUNT    *)
(* ends in the error: it records no upload, truncated or not, and no draw, *)
(* and no recorded upload reaches past its buffer's capacity.              *)
(***************************************************************************)
C6_OverflowRejected ==
    /\ \A k \in 1..Len(invoked) :
          OverCapacity(invoked[k]) =>
              /\ ~invoked[k].returned
              /\ pc = "panicked"
              /\ RecordedNothing(k)
    /\ \A i \in 1..Len(encoder) :
          IsUpload(encoder[i]) =>
              encoder[i].offset + encoder[i].data.len <= 2 * BUFFER_SIZE

C6_Witness ==
    /\ Len(invoked) = 2
    /\ invoked[1].returned
    /\ invoked[1].vertices.len = 2 * BUFFER_SIZE
    /\ invoked[2].kind = "tri_list"
    /\ invoked[2].vertices.len = 2 * BUFFER_SIZE + 2
    /\ ~invoked[2].returned
    /\ pc = "panicked"
    /\ Len(encoder) = 2

(***************************************************************************)
(* C7 as stated: an input-contract violation in one draw (mismatched       *)
(* lengths, a scissor out of range, more vertices than the capacity)       *)
(* aborts that draw call and only it: no draw is recorded for it and the   *)
(* scope goes on, so that later invocations can record their draws.        *)
(***************************************************************************)
C7_ViolationAbortsOnlyThatDraw ==
    \A k \in 1..Len(invoked) :
        (\/ Mismatched(invoked[k])
         \/ OverCapacity(invoked[k])
         \/ ~ScissorFits(invoked[k].draw_state.scissor)) =>
            /\ ~invoked[k].returned
            /\ pc # "panicked"

(***************************************************************************)
(* C8: PsoStencil::new builds, for each program, exactly one pipeline for  *)
(* each of the 20 (clip mode, blend mode) pairs; the one at (c, b) has the *)
(* blend function of b (One/Zero/Add for none), the stencil test of c      *)
(* (none: Always, all ops Keep; clip: Never, fail op Replace; inside:      *)
(* Equal; outside: NotEqual) and an empty colour mask exactly for clip.    *)
(***************************************************************************)
C8_BlendOf(b) ==
    [alpha |-> "ALPHA", add |-> "ADD", multiply |-> "MULTIPLY",
     invert |-> "INVERT", none |-> "none"][b]

C8_FunOf(c) ==
    [none |-> "Always", clip |-> "Never", inside |-> "Equal",
     outside |-> "NotEqual"][c]

C8_MatrixBuilt(m, program, before) ==
    /\ {m[c][b].id : c \in ClipFields, b \in BlendFields} =
           (before + 1)..(before + 20)
    /\ \A c \in ClipFields, b \in BlendFields :
          LET p == m[c][b]
          IN /\ p.program = program
             /\ p.blend_target.blend.preset = C8_BlendOf(b)
             /\ b = "none" =>
                   /\ p.blend_target.blend.color =
                          [equation |-> "Add", source |-> "One",
                           destination |-> "Zero"]
                   /\ p.blend_target.blend.alpha =
                          [equation |-> "Add", source |-> "One",
                           destination |-> "Zero"]
             /\ p.stencil_target.fun = C8_FunOf(c)
             /\ c = "none" =>
                   /\ p.stencil_target.op_fail = "Keep"
                   /\ p.stencil_target.op_depth_fail = "Keep"
                   /\ p.stencil_target.op_pass = "Keep"
             /\ c = "clip" => p.stencil_target.op_fail = "Replace"
             /\ p.blend_target.mask =
                    (IF c = "clip" THEN "MASK_NONE" ELSE "MASK_ALL")

C8_MatrixContents ==
    /\ C8_MatrixBuilt(g2d.colored, "colored", 0)
    /\ C8_MatrixBuilt(g2d.textured, "textured", 20)

\* A clip pass recorded through the clip/alpha pipeline of the textured matrix.
C8_Witness ==
    /\ pc = "tri_list_uv"
    /\ frame.draw_state.stencil.tag = "Clip"
    /\ frame.pso = g2d.textured.clip.alpha
    /\ frame.pso.blend_target.mask = "MASK_NONE"
    /\ frame.pso.stencil_target.fun = "Never"
    /\ \E i \in 1..Len(encoder) :
          IsDraw(encoder[i]) /\ encoder[i].pso = g2d.textured.clip.alpha

(***************************************************************************)
(* C9: after any sequence of draw scopes, clears, tri_list and tri_list_uv *)
(* calls both matrices hold at every (clip, blend) position the pipeline   *)
(* they held right after Gfx2d::new, and draws with the same program, clip *)
(* mode and blend setting (absent/absent among them) use the same          *)
(* pipeline.                                                               *)
(***************************************************************************)
C9_MatricesUnchanged ==
    /\ \A c \in ClipFields, b \in BlendFields :
          /\ g2d.colored[c][b] = Gfx2dNew.colored[c][b]
          /\ g2d.textured[c][b] = Gfx2dNew.textured[c][b]
    /\ \A j, k \in ReturnedIndices :
          (/\ invoked[j].kind = invoked[k].kind
           /\ invoked[j].draw_state.stencil.tag =
                  invoked[k].draw_state.stencil.tag
           /\ invoked[j].draw_state.blend = invoked[k].draw_state.blend) =>
              encoder[invoked[j].first + UploadsOf(invoked[j].kind)].pso =
                  encoder[invoked[k].first + UploadsOf(invoked[k].kind)].pso

\* Two draws with absent clip and absent blend, a clear between them, in
\* two scopes.
C9_Witness ==
    /\ pc = "idle"
    /\ Len(invoked) = 2
    /\ invoked[1].returned /\ invoked[2].returned
    /\ invoked[1].kind = "tri_list" /\ invoked[2].kind = "tri_list"
    /\ invoked[1].draw_state.stencil = None
    /\ invoked[1].draw_state.blend = None
    /\ invoked[2].draw_state.stencil = None
    /\ invoked[2].draw_state.blend = None
    /\ Len(encoder) = 5
    /\ encoder[3].op = "clear_stencil"
    /\ encoder[2].pso = encoder[5].pso
    /\ encoder[5].pso = g2d.colored.none.none

(***************************************************************************)
(* C10: no upload is left without its draw: in every state each recorded   *)
(* upload is followed by the draw of its invocation, with only the         *)
(* texcoord upload of a textured draw in between, and every invocation     *)
(* recorded either nothing or its uploads and its draw.                    *)
(***************************************************************************)
C10_UploadThenDraw ==
    /\ \A i \in 1..Len(encoder) :
          IsUpload(encoder[i]) =>
              /\ i < Len(encoder)
              /\ \/ IsDraw(encoder[i + 1])
                 \/ /\ encoder[i].buf = "buffer_pos"
                    /\ IsUpload(encoder[i + 1])
                    /\ encoder[i + 1].buf = "buffer_uv"
                    /\ i + 1 < Len(encoder)
                    /\ IsDraw(encoder[i + 2])
    /\ \A k \in 1..Len(invoked) :
          ~invoked[k].returned => RecordedNothing(k)

\* A textured draw that fills both buffers to their capacity.
C10_Witness ==
    /\ Len(invoked) = 1
    /\ invoked[1].kind = "tri_list_uv"
    /\ invoked[1].vertices.len = 2 * BUFFER_SIZE
    /\ invoked[1].texture_coords.len = 2 * BUFFER_SIZE
    /\ Len(encoder) = 3
    /\ encoder[1].op = "update_buffer" /\ encoder[1].buf = "buffer_pos"
    /\ encoder[2].op = "update_buffer" /\ encoder[2].buf = "buffer_uv"
    /\ encoder[3].op = "draw"
    /\ pc = "body"

====
